---- MODULE Spec2Model ----
(***************************************************************************)
(* Flash Number Trainer (src/app/page.tsx): the FlashNumberTrainer parent  *)
(* component (view, settings, sessionResults, currentHistory) and the      *)
(* RunSession component (phase, trialIndex, currentStimulus, userInput,    *)
(* results, isPaused, feedbackState, timerRef).                            *)
(*                                                                         *)
(* One action is one event of the page: a timer callback or a click        *)
(* handler.  A handler reads the values of the render it was created in,   *)
(* queues its state updates, and React then renders and runs the effects   *)
(* whose dependencies changed (cleanups first, then the effects in         *)
(* declaration order); a state update made by an effect causes one more    *)
(* render.  All of that is part of the action.                             *)
(*                                                                         *)
(* While the view is not RUN no RunSession exists: its variables hold the   *)
(* useState initial values and no effect cleanup is registered.            *)
(*                                                                         *)
(* Specifications: Spec is the page with the settings and the history it   *)
(* starts with; SpecBurst adds two key presses handled by one render;      *)
(* SpecLoad is the load effect with what localStorage may hold and the way *)
(* to a run; SpecStimulus applies generateStimulus; SpecScore is the       *)
(* result and history screens for every outcome of a set; SpecControls is  *)
(* the settings screen with its NumberControls; SpecLive is Spec for short *)
(* sets under the fairness of the timers and of the user.                  *)
(*                                                                         *)
(* Not modelled: the durations of the timers (a pending timer fires at an  *)
(* arbitrary later moment), the timestamps of the trial records (those of  *)
(* the history records only tell this visit from an earlier one), the      *)
(* stimulus font fitting, and the writes to localStorage.                  *)
(***************************************************************************)
EXTENDS Integers, Sequences, FiniteSets, TLC

\* ------------------------------------------------------------- bounds
\* settings.digits ranges over 1..MaxDigits in the runs explored
MaxDigits == 2
\* settings.trialsPerSet ranges over 1..MaxTrials in the runs explored
MaxTrials == 3
\* a new set is started only while the history holds fewer records written since
\* the page was loaded
MaxHistory == 1

\* settings.digits and settings.trialsPerSet range over 1..LiveDigits and
\* 1..LiveTrials in the runs explored for termination
LiveDigits == 1
LiveTrials == 2

\* outcomes of Math.random() explored, in tenths: 0.0 and 0.1
RandomDraws == {0, 1}
\* the digit keys pressed in the runs explored (the keypad has "0" to "9")
PressedKeys == {"1"}

\* ------------------------------------------------------------- values
Phases == {"PREP", "SHOW", "HIDE", "ANSWER", "FEEDBACK"}
Views == {"HOME", "SETTINGS", "RUN", "RESULT", "HISTORY"}
NumberRanges == {"0-9", "1-9"}
AnswerModes == {"keypad", "none"}
\* timerRef.current before the first setTimeout
NullTimer == 0

VARIABLES
    view,             \* FlashNumberTrainer: the screen shown
    settings,         \* FlashNumberTrainer: the settings object
    sessionResults,   \* FlashNumberTrainer: results handed over by onFinish
    currentHistory,   \* FlashNumberTrainer: the history records
    historyIsArray,   \* FlashNumberTrainer: whether the currentHistory state holds an array
    phase,            \* RunSession state
    trialIndex,       \* RunSession state
    currentStimulus,  \* RunSession state
    userInput,        \* RunSession state
    results,          \* RunSession state
    isPaused,         \* RunSession state
    feedbackState,    \* RunSession state: "null", "correct", "incorrect", "verbal"
    timerRef,         \* RunSession: timerRef.current, the id of the last setTimeout
    timers,           \* the browser's pending timeouts, each with the values its callback closes over
    hasCleanup,       \* whether the last run of the phase timer effect returned its cleanup
    finishCalls,      \* history variable: invocations of onFinish by the current RunSession
    lastExit,         \* history variable: how and where the last RunSession was left
    lastEvent         \* history variable: the handler or callback that ran last

parentVars == <<view, settings, sessionResults, currentHistory, historyIsArray>>
runVars == <<phase, trialIndex, currentStimulus, userInput, results, isPaused, feedbackState>>
timerVars == <<timerRef, timers, hasCleanup>>
vars == <<view, settings, sessionResults, currentHistory, historyIsArray, phase, trialIndex, currentStimulus,
          userInput, results, isPaused, feedbackState, timerRef, timers, hasCleanup,
          finishCalls, lastExit, lastEvent>>

\* a handler returns without an update: nothing of the page changes
NoUpdate == UNCHANGED <<parentVars, runVars, timerVars, finishCalls, lastExit>>

\* ------------------------------------------------------------- generateStimulus
\* digit.toString()
DigitToString(d) == <<"0", "1", "2", "3", "4", "5", "6", "7", "8", "9">>[d + 1]

\* a digit drawn from 0..9 whatever the range
RandomDigitIgnoresRange(range, draw) == (draw * 10) \div 10

\* Math.floor(Math.random() * (maxVal - minVal + 1)) + minVal, Math.random() = draw / 10
RandomDigit(range, draw) ==
    LET minVal == IF range = "1-9" THEN 1 ELSE 0
        maxVal == 9
    IN ((draw * (maxVal - minVal + 1)) \div 10) + minVal

RECURSIVE GenerateLoop(_, _, _, _, _)
\* the for loop of generateStimulus: i is the loop counter, numStr the accumulator
GenerateLoop(i, digits, range, rnd, numStr) ==
    IF i < digits
    THEN GenerateLoop(i + 1, digits, range, rnd,
                      numStr \o DigitToString(RandomDigit(range, rnd[i + 1])))
    ELSE numStr

\* generateStimulus(digits, range); rnd[k] is the k-th outcome of Math.random()
generateStimulus(digits, range, rnd) == GenerateLoop(0, digits, range, rnd, "")

\* the strings generateStimulus can return for the current settings
Stimuli ==
    { generateStimulus(settings.digits, settings.numberRange, rnd) :
        rnd \in [1..settings.digits -> RandomDraws] }

\* ------------------------------------------------------------- RunSession as a record
\* the state of RunSession as its last render saw it
Rendered ==
    [phase |-> phase, trialIndex |-> trialIndex, currentStimulus |-> currentStimulus,
     userInput |-> userInput, results |-> results, isPaused |-> isPaused,
     feedbackState |-> feedbackState]

\* the useState initial values of RunSession
InitialRun ==
    [phase |-> "PREP", trialIndex |-> 0, currentStimulus |-> "", userInput |-> "",
     results |-> <<>>, isPaused |-> FALSE, feedbackState |-> "null"]

\* timerRef and the pending timeouts
TimerState == [timerRef |-> timerRef, timers |-> timers, hasCleanup |-> hasCleanup]

\* ------------------------------------------------------------- timers
\* a clearTimer that cancels nothing
clearTimerNothing(ts) == ts

\* clearTimer: if (timerRef.current) clearTimeout(timerRef.current)
clearTimer(ts) ==
    IF ts.timerRef # NullTimer
    THEN [ts EXCEPT !.timers = { t \in @ : t.id # ts.timerRef }]
    ELSE ts

\* the id setTimeout returns: one no pending timeout has (and not the one timerRef still holds)
FreshTimerId(ts) ==
    LET used == { t.id : t \in ts.timers } \cup {ts.timerRef, NullTimer}
    IN CHOOSE n \in 1..(Cardinality(used) + 1) :
           /\ n \notin used
           /\ \A m \in 1..(Cardinality(used) + 1) : m \notin used => n <= m

\* timerRef.current = setTimeout(callback, ...): the callback closes over the
\* render s (its phase selects the callback; nextTrial closes over trialIndex and results)
setTimeout(s, ts) ==
    LET id == FreshTimerId(ts)
    IN [ts EXCEPT !.timerRef = id,
                  !.timers = @ \cup {[id |-> id, phase |-> s.phase, trialIndex |-> s.trialIndex,
                                      currentStimulus |-> s.currentStimulus,
                                      results |-> s.results]}]

\* a phase timer effect without the early return while paused
PhaseTimerEffectIgnoresPause(s, ts) ==
    LET cleared == clearTimer(ts)
    IN IF s.phase = "ANSWER"
       THEN [cleared EXCEPT !.hasCleanup = TRUE]
       ELSE [setTimeout(s, cleared) EXCEPT !.hasCleanup = TRUE]

\* a phase timer effect that schedules a timer in every phase
PhaseTimerEffectAnswerTimer(s, ts) ==
    IF s.isPaused
    THEN [ts EXCEPT !.hasCleanup = FALSE]
    ELSE [setTimeout(s, clearTimer(ts)) EXCEPT !.hasCleanup = TRUE]

\* the body of the phase timer effect, run in render s
PhaseTimerEffect(s, ts) ==
    IF s.isPaused
    THEN [ts EXCEPT !.hasCleanup = FALSE]
    ELSE LET cleared == clearTimer(ts)
         IN IF s.phase = "ANSWER"
            THEN [cleared EXCEPT !.hasCleanup = TRUE]
            ELSE [setTimeout(s, cleared) EXCEPT !.hasCleanup = TRUE]

\* a phase timer effect that returns no cleanup
PhaseTimerNoCleanup(ts) == [ts EXCEPT !.hasCleanup = FALSE]

\* the cleanup the phase timer effect returned: () => clearTimer()
PhaseTimerCleanup(ts) ==
    IF ts.hasCleanup THEN [clearTimer(ts) EXCEPT !.hasCleanup = FALSE] ELSE ts

\* the dependency list of the phase timer effect; settings is fixed during a run,
\* nextTrial is a new function whenever trialIndex or results changed
PhaseTimerDeps(s) == <<s.phase, s.isPaused, s.trialIndex, s.results, s.currentStimulus>>

\* React after a render: the effect runs again (cleanup first) iff a dependency changed
RunPhaseTimerEffect(old, new, ts) ==
    IF PhaseTimerDeps(old) = PhaseTimerDeps(new)
    THEN ts
    ELSE PhaseTimerEffect(new, PhaseTimerCleanup(ts))

\* a data setup effect that keeps the input and the feedback
DataSetupKeepsInput(s, num) == [s EXCEPT !.currentStimulus = num, !.phase = "PREP"]

\* the data setup effect: new stimulus, input and feedback cleared, phase PREP
DataSetupEffect(s, num) ==
    [s EXCEPT !.currentStimulus = num, !.userInput = "", !.feedbackState = "null",
              !.phase = "PREP"]

\* Render `new` after render `old`, run the effects, and render once more when the
\* data setup effect (dependency trialIndex) updated the state.
\* Result: <<the state of the last render, the timer state>>
Commit(old, new, ts, num) ==
    LET ts1 == RunPhaseTimerEffect(old, new, ts)
        new2 == IF old.trialIndex # new.trialIndex THEN DataSetupEffect(new, num) ELSE new
        ts2 == RunPhaseTimerEffect(new, new2, ts1)
    IN <<new2, ts2>>

\* The first render of RunSession: every effect runs, then the render with the stimulus
Mount(num, ts) ==
    LET ts1 == PhaseTimerEffect(InitialRun, ts)
        new2 == DataSetupEffect(InitialRun, num)
        ts2 == RunPhaseTimerEffect(InitialRun, new2, ts1)
    IN <<new2, ts2>>

\* an unmount that runs no cleanup
UnmountWithoutCleanup(ts) == [ts EXCEPT !.hasCleanup = FALSE, !.timerRef = NullTimer]

\* RunSession leaves the tree: the cleanup of the phase timer effect runs, and the
\* ref is gone with the component
Unmount(ts) == [PhaseTimerCleanup(ts) EXCEPT !.timerRef = NullTimer]

\* the RunSession state after the action is s
SetRun(s) ==
    /\ phase' = s.phase
    /\ trialIndex' = s.trialIndex
    /\ currentStimulus' = s.currentStimulus
    /\ userInput' = s.userInput
    /\ results' = s.results
    /\ isPaused' = s.isPaused
    /\ feedbackState' = s.feedbackState

\* the timer state after the action is ts
SetTimers(ts) ==
    /\ timerRef' = ts.timerRef
    /\ timers' = ts.timers
    /\ hasCleanup' = ts.hasCleanup

\* ------------------------------------------------------------- handlers of the parent
\* results.filter((r) => r.isCorrect).length
RECURSIVE CorrectCount(_)
CorrectCount(res) ==
    IF res = <<>> THEN 0
    ELSE (IF Head(res).isCorrect THEN 1 ELSE 0) + CorrectCount(Tail(res))

\* Date.now() during this visit of the page, later than every loaded timestamp
Now == 1

\* the record onFinish appends to the history
NewRecord(res) ==
    [timestamp |-> Now, settings |-> settings, results |-> res, total |-> Len(res),
     correct |-> CorrectCount(res)]

\* a score that drops the fraction
ScoreRoundsDown(correct, total) ==
    IF total = 0
    THEN [isNaN |-> TRUE, value |-> 0]
    ELSE [isNaN |-> FALSE, value |-> (100 * correct) \div total]

\* Math.round((correct / total) * 100) as a JavaScript number: NaN when total is 0
\* (0 / 0), otherwise the integer nearest to the quotient, a half rounded up (the
\* quotient is computed exactly here)
Score(correct, total) ==
    IF total = 0
    THEN [isNaN |-> TRUE, value |-> 0]
    ELSE [isNaN |-> FALSE, value |-> (200 * correct + total) \div (2 * total)]

\* the score ResultScreen shows for the results it is given
ResultScreenScore(res) == Score(CorrectCount(res), Len(res))

\* the Score(%) column exportCSV writes for the history record h
CsvScore(h) == Score(h.correct, h.total)

\* a record an earlier visit left in localStorage ("fnt_history"): a keypad set of one
\* trial, answered correctly
LoadedRecord ==
    [timestamp |-> 0,
     settings |-> [digits |-> 1, trialsPerSet |-> 1, numberRange |-> "1-9",
                   answerMode |-> "keypad", feedback |-> TRUE, recording |-> TRUE],
     results |-> <<[trial |-> 1, stimulus |-> "1", input |-> "1", isCorrect |-> TRUE,
                    isVerbal |-> FALSE]>>,
     total |-> 1, correct |-> 1]

\* the histories the load effect finds in localStorage in the runs explored
LoadedHistories == {<<>>, <<LoadedRecord>>}

\* the records of history h written since the page was loaded
WrittenRecords(h) == SelectSeq(h, LAMBDA r : r.timestamp = Now)

\* what lastExit records when RunSession is left
ExitInfo(kind) ==
    [kind |-> kind, phase |-> phase, trialIndex |-> trialIndex, isPaused |-> isPaused,
     recorded |-> Len(results)]

\* lastExit while no RunSession has been left since the last start
NoExit == [kind |-> "none", phase |-> "PREP", trialIndex |-> 0, isPaused |-> FALSE,
           recorded |-> 0]

\* an onFinish that appends the record whatever settings.recording is
OnFinishAlwaysRecords(res, ts) ==
    /\ sessionResults' = res
    /\ currentHistory' = Append(currentHistory, NewRecord(res))
    /\ view' = "RESULT"
    /\ finishCalls' = finishCalls + 1
    /\ SetTimers(Unmount(ts))
    /\ SetRun(InitialRun)
    /\ lastExit' = ExitInfo("finish")
    /\ UNCHANGED <<settings, historyIsArray>>

\* onFinish(res) of FlashNumberTrainer, called with the timer state ts; RunSession
\* is unmounted by the view change: the updates it queued in the same handler are
\* never rendered
OnFinish(res, ts) ==
    /\ sessionResults' = res
    /\ currentHistory' = IF settings.recording
                         THEN Append(currentHistory, NewRecord(res))
                         ELSE currentHistory
    /\ view' = "RESULT"
    /\ finishCalls' = finishCalls + 1
    /\ SetTimers(Unmount(ts))
    /\ SetRun(InitialRun)
    /\ lastExit' = ExitInfo("finish")
    /\ UNCHANGED <<settings, historyIsArray>>

\* a handler of RunSession is done: its updates `new` are rendered and the effects run
Rerender(new, num) ==
    LET c == Commit(Rendered, new, TimerState, num)
    IN /\ SetRun(c[1])
       /\ SetTimers(c[2])
       /\ UNCHANGED <<parentVars, finishCalls, lastExit>>

\* the same after a timer callback: the timeout t that fired is no longer pending.
\* State updates of a RunSession that is no longer mounted are dropped by React.
RerenderAfter(t, new, num) ==
    IF view = "RUN"
    THEN LET c == Commit(Rendered, new, [TimerState EXCEPT !.timers = @ \ {t}], num)
         IN /\ SetRun(c[1])
            /\ SetTimers(c[2])
            /\ UNCHANGED <<parentVars, finishCalls, lastExit>>
    ELSE /\ timers' = timers \ {t}
         /\ UNCHANGED <<parentVars, runVars, timerRef, hasCleanup, finishCalls, lastExit>>

\* handleStartRequest
HandleStartRequest ==
    /\ lastEvent' = "handleStartRequest"
    /\ view = "HOME"
    /\ view' = "SETTINGS"
    /\ UNCHANGED <<settings, sessionResults, currentHistory, historyIsArray, runVars, timerVars,
                   finishCalls, lastExit>>

\* handleStartTraining: the session results are reset and RunSession is mounted
HandleStartTraining ==
    /\ lastEvent' = "handleStartTraining"
    /\ view = "SETTINGS"
    /\ Len(WrittenRecords(currentHistory)) < MaxHistory
    /\ \E num \in Stimuli :
         LET m == Mount(num, TimerState)
         IN /\ SetRun(m[1])
            /\ SetTimers(m[2])
    /\ sessionResults' = <<>>
    /\ view' = "RUN"
    /\ finishCalls' = 0
    /\ lastExit' = NoExit
    /\ UNCHANGED <<settings, currentHistory, historyIsArray>>

\* ResultScreen: onNextSet
ResultNextSet ==
    /\ lastEvent' = "onNextSet"
    /\ view = "RESULT"
    /\ view' = "SETTINGS"
    /\ UNCHANGED <<settings, sessionResults, currentHistory, historyIsArray, runVars, timerVars,
                   finishCalls, lastExit>>

\* ResultScreen: onHome
ResultHome ==
    /\ lastEvent' = "onHome"
    /\ view = "RESULT"
    /\ view' = "HOME"
    /\ UNCHANGED <<settings, sessionResults, currentHistory, historyIsArray, runVars, timerVars,
                   finishCalls, lastExit>>

\* onAbort (top bar arrow, or the button of the pause modal): setView("HOME")
OnAbort ==
    /\ lastEvent' = "onAbort"
    /\ view = "RUN"
    /\ view' = "HOME"
    /\ lastExit' = ExitInfo("abort")
    /\ SetTimers(Unmount(TimerState))
    /\ SetRun(InitialRun)
    /\ UNCHANGED <<settings, sessionResults, currentHistory, historyIsArray, finishCalls>>

\* the back button of the settings screen: setView("HOME")
SettingsBack ==
    /\ lastEvent' = "settingsBack"
    /\ view = "SETTINGS"
    /\ view' = "HOME"
    /\ UNCHANGED <<settings, sessionResults, currentHistory, historyIsArray, runVars, timerVars,
                   finishCalls, lastExit>>

\* the history button of the home screen: setView("HISTORY"); renderHistory reads
\* currentHistory.length and calls currentHistory.slice().reverse(), which throws a
\* TypeError when the state holds no array: the page is then gone (view "CRASHED")
OpenHistory ==
    /\ lastEvent' = "openHistory"
    /\ view = "HOME"
    /\ view' = IF historyIsArray THEN "HISTORY" ELSE "CRASHED"
    /\ UNCHANGED <<settings, sessionResults, currentHistory, historyIsArray, runVars, timerVars,
                   finishCalls, lastExit>>

\* the back button of the history screen: setView("HOME")
HistoryBack ==
    /\ lastEvent' = "historyBack"
    /\ view = "HISTORY"
    /\ view' = "HOME"
    /\ UNCHANGED <<settings, sessionResults, currentHistory, historyIsArray, runVars, timerVars,
                   finishCalls, lastExit>>

\* handleHistoryClear: the history is emptied when window.confirm returns true
HandleHistoryClear ==
    /\ view = "HISTORY"
    /\ \E confirmed \in BOOLEAN :
         /\ lastEvent' = (IF confirmed THEN "historyClear" ELSE "historyClearCancelled")
         /\ currentHistory' = IF confirmed THEN <<>> ELSE currentHistory
         /\ historyIsArray' = IF confirmed THEN TRUE ELSE historyIsArray
    /\ UNCHANGED <<view, settings, sessionResults, runVars, timerVars, finishCalls, lastExit>>

\* ------------------------------------------------------------- RunSession
\* a trial record numbered from 0
TrialRecordZeroBased(trial, stimulus, input, isCorrect, isVerbal) ==
    [trial |-> trial - 1, stimulus |-> stimulus, input |-> input,
     isCorrect |-> isCorrect, isVerbal |-> isVerbal]

\* the record a trial appends to results
TrialRecord(trial, stimulus, input, isCorrect, isVerbal) ==
    [trial |-> trial, stimulus |-> stimulus, input |-> input,
     isCorrect |-> isCorrect, isVerbal |-> isVerbal]

\* a nextTrial that never completes the set
IsLastTrialNever(ti) == FALSE

\* a nextTrial that completes the set one trial late
IsLastTrialLate(ti) == ti >= settings.trialsPerSet

\* the test of nextTrial: trialIndex + 1 >= settings.trialsPerSet
IsLastTrial(ti) == ti + 1 >= settings.trialsPerSet

\* nextTrial as created in a render with trialIndex ti and results res; `new` holds
\* the updates the caller queued before calling it, `fired` the timeout that is running
\* it (none when a click handler calls it)
NextTrial(ti, res, new, fired) ==
    IF IsLastTrial(ti)
    THEN OnFinish(res, [TimerState EXCEPT !.timers = @ \ fired])
    ELSE IF view = "RUN"
         THEN \E num \in Stimuli :
                LET c == Commit(Rendered,
                                [new EXCEPT !.trialIndex = @ + 1, !.phase = "PREP"],
                                [TimerState EXCEPT !.timers = @ \ fired], num)
                IN /\ SetRun(c[1])
                   /\ SetTimers(c[2])
                   /\ UNCHANGED <<parentVars, finishCalls, lastExit>>
         ELSE /\ timers' = timers \ fired
              /\ UNCHANGED <<parentVars, runVars, timerRef, hasCleanup, finishCalls, lastExit>>

\* the callback of the PREP timer: setPhase("SHOW")
PrepCallback(t) == RerenderAfter(t, [Rendered EXCEPT !.phase = "SHOW"], currentStimulus)

\* a SHOW callback that goes straight to the answer
ShowCallbackSkipsHide(t) ==
    RerenderAfter(t, [Rendered EXCEPT !.phase = "ANSWER"], currentStimulus)

\* the callback of the SHOW timer: setPhase("HIDE")
ShowCallback(t) == RerenderAfter(t, [Rendered EXCEPT !.phase = "HIDE"], currentStimulus)

\* a HIDE callback that does nothing
HideCallbackIdle(t) == RerenderAfter(t, Rendered, currentStimulus)

\* the callback of the HIDE timer: in answer mode none the trial is recorded and
\* nextTrial() called, otherwise setPhase("ANSWER")
HideCallback(t) ==
    IF settings.answerMode = "none"
    THEN NextTrial(t.trialIndex, t.results,
                   [Rendered EXCEPT !.results =
                       Append(@, TrialRecord(t.trialIndex + 1, t.currentStimulus,
                                             "(None)", TRUE, TRUE))],
                   {t})
    ELSE RerenderAfter(t, [Rendered EXCEPT !.phase = "ANSWER"], currentStimulus)

\* the callback of the FEEDBACK timer (either delay): nextTrial()
FeedbackCallback(t) == NextTrial(t.trialIndex, t.results, Rendered, {t})

\* the PREP timeout fires and its callback runs
PrepTimerFires ==
    /\ lastEvent' = "prepTimer"
    /\ \E t \in timers : t.phase = "PREP" /\ PrepCallback(t)

\* the SHOW timeout fires
ShowTimerFires ==
    /\ lastEvent' = "showTimer"
    /\ \E t \in timers : t.phase = "SHOW" /\ ShowCallback(t)

\* the HIDE timeout fires
HideTimerFires ==
    /\ lastEvent' = "hideTimer"
    /\ \E t \in timers : t.phase = "HIDE" /\ HideCallback(t)

\* the FEEDBACK timeout fires
FeedbackTimerFires ==
    /\ lastEvent' = "feedbackTimer"
    /\ \E t \in timers : t.phase = "FEEDBACK" /\ FeedbackCallback(t)

\* the update handleKeypad(key) queues, applied to prev: the handler was created in a
\* render whose userInput is seen, and only its digit test reads that value
KeypadUpdate(key, seen, prev) ==
    IF key = "DELETE"
    THEN (IF Len(prev) = 0 THEN "" ELSE SubSeq(prev, 1, Len(prev) - 1))
    ELSE IF key = "CLEAR"
         THEN ""
         ELSE IF Len(seen) < settings.digits THEN prev \o key ELSE prev

\* a handleKeypad without the test of the phase
HandleKeypadAnyPhase(key) ==
    /\ lastEvent' = "handleKeypad"
    /\ view = "RUN"
    /\ settings.answerMode = "keypad"
    /\ Rerender([Rendered EXCEPT !.userInput = KeypadUpdate(key, userInput, @)],
                currentStimulus)

\* handleKeypad(key)
HandleKeypad(key) ==
    /\ lastEvent' = "handleKeypad"
    /\ view = "RUN"
    /\ settings.answerMode = "keypad"
    /\ IF phase # "ANSWER"
       THEN NoUpdate
       ELSE IF key = "DELETE"
            THEN Rerender([Rendered EXCEPT !.userInput =
                              IF Len(@) = 0 THEN "" ELSE SubSeq(@, 1, Len(@) - 1)],
                          currentStimulus)
            ELSE IF key = "CLEAR"
                 THEN Rerender([Rendered EXCEPT !.userInput = ""], currentStimulus)
                 ELSE IF Len(userInput) < settings.digits
                      THEN Rerender([Rendered EXCEPT !.userInput = @ \o key], currentStimulus)
                      ELSE NoUpdate

\* a key of the keypad is pressed
KeypadPress == \E key \in PressedKeys \cup {"DELETE", "CLEAR"} : HandleKeypad(key)

\* two keys are pressed and both presses are handled by the handleKeypad of the same
\* render; React applies the queued updates in order in the next render
KeypadBurst ==
    /\ lastEvent' = "keypadBurst"
    /\ view = "RUN"
    /\ settings.answerMode = "keypad"
    /\ \E key1, key2 \in PressedKeys \cup {"DELETE", "CLEAR"} :
         IF phase # "ANSWER"
         THEN NoUpdate
         ELSE Rerender([Rendered EXCEPT !.userInput =
                           KeypadUpdate(key2, userInput, KeypadUpdate(key1, userInput, @))],
                       currentStimulus)

\* an isCorrect that accepts an input the stimulus starts with
IsCorrectPrefix(verbal, input, stimulus) ==
    IF verbal THEN TRUE
    ELSE Len(input) <= Len(stimulus) /\ SubSeq(stimulus, 1, Len(input)) = input

\* isCorrect as submitAnswer computes it: verbal ? true : userInput === currentStimulus
IsCorrect(verbal, input, stimulus) == IF verbal THEN TRUE ELSE input = stimulus

\* a feedback that always shows the correct mark
FeedbackKindAlwaysCorrect(verbal, isCorrect) == "correct"

\* setFeedbackState(verbal ? "verbal" : isCorrect ? "correct" : "incorrect")
FeedbackKind(verbal, isCorrect) ==
    IF verbal THEN "verbal" ELSE IF isCorrect THEN "correct" ELSE "incorrect"

\* submitAnswer(verbal)
SubmitAnswer(verbal) ==
    /\ lastEvent' = "submitAnswer"
    /\ view = "RUN"
    /\ IF phase # "ANSWER"
       THEN NoUpdate
       ELSE LET isCorrect == IsCorrect(verbal, userInput, currentStimulus)
                recorded == [Rendered EXCEPT !.results =
                                Append(@, TrialRecord(trialIndex + 1, currentStimulus,
                                                      IF verbal THEN "(Verbal)" ELSE userInput,
                                                      isCorrect, verbal))]
            IN IF settings.feedback
               THEN Rerender([recorded EXCEPT !.feedbackState = FeedbackKind(verbal, isCorrect),
                                              !.phase = "FEEDBACK"],
                             currentStimulus)
               ELSE NextTrial(trialIndex, results, recorded, {})

\* the confirm button of the keypad (answerMode keypad)
SubmitKeypad ==
    /\ settings.answerMode = "keypad"
    /\ SubmitAnswer(FALSE)

\* the verbal-complete button (answerMode none)
SubmitVerbal ==
    /\ settings.answerMode = "none"
    /\ SubmitAnswer(TRUE)

\* a pause button that is never disabled
PauseNeverDisabled == FALSE

\* the disabled attribute of the pause button: phase !== "SHOW" && phase !== "HIDE"
PauseDisabled == phase # "SHOW" /\ phase # "HIDE"

\* the pause button of the top bar: setIsPaused(!isPaused)
TogglePause ==
    /\ lastEvent' = "togglePause"
    /\ view = "RUN"
    /\ ~PauseDisabled
    /\ Rerender([Rendered EXCEPT !.isPaused = ~isPaused], currentStimulus)

\* the resume button of the pause modal, shown while isPaused: setIsPaused(false)
Resume ==
    /\ lastEvent' = "resume"
    /\ view = "RUN"
    /\ isPaused
    /\ Rerender([Rendered EXCEPT !.isPaused = FALSE], currentStimulus)

\* ------------------------------------------------------------- the load effect
\* DEFAULT_SETTINGS; seconds are counted in hundredths (displaySec 0.5 is 50)
DEFAULT_SETTINGS ==
    [mode |-> "sequence", digits |-> 4, displaySec |-> 50, itiSec |-> 100,
     trialsPerSet |-> 5, numberRange |-> "0-9", answerMode |-> "keypad",
     feedback |-> TRUE, feedbackSec |-> 100, recording |-> FALSE]

MIN_DIGITS == 1
MAX_DIGITS == 8

\* What localStorage.getItem("fnt_settings") and JSON.parse make of the stored entry:
\* kind "absent" (getItem returns null), "unparseable" (JSON.parse throws), "null"
\* (the JSON text null) or "object"; present names the fields the parsed object has
\* and values gives their values (the other fields of values are not read).
StoredObject(present, values) == [kind |-> "object", present |-> present, values |-> values]

\* the stored settings entries explored
StoredSettings ==
    { [kind |-> k, present |-> {}, values |-> DEFAULT_SETTINGS] :
        k \in {"absent", "unparseable", "null"} }
    \cup { StoredObject({}, DEFAULT_SETTINGS),
           StoredObject({"digits"}, [DEFAULT_SETTINGS EXCEPT !.digits = 0]),
           StoredObject({"digits"}, [DEFAULT_SETTINGS EXCEPT !.digits = 9]),
           StoredObject({"trialsPerSet"}, [DEFAULT_SETTINGS EXCEPT !.trialsPerSet = 0]),
           StoredObject({"trialsPerSet"}, [DEFAULT_SETTINGS EXCEPT !.trialsPerSet = 21]),
           StoredObject({"answerMode"}, [DEFAULT_SETTINGS EXCEPT !.answerMode = "voice"]),
           StoredObject({"numberRange"}, [DEFAULT_SETTINGS EXCEPT !.numberRange = "2-5"]),
           StoredObject({"digits", "trialsPerSet", "recording"},
                        [DEFAULT_SETTINGS EXCEPT !.digits = 2, !.trialsPerSet = 1,
                                                 !.recording = TRUE]) }

\* { ...DEFAULT_SETTINGS, ...parsed }: a field of the parsed object wins over the default
\* (null spreads no field)
MergeWithDefaults(stored) ==
    LET Pick(f) == IF f \in stored.present THEN stored.values[f] ELSE DEFAULT_SETTINGS[f]
    IN [mode |-> Pick("mode"), digits |-> Pick("digits"), displaySec |-> Pick("displaySec"),
        itiSec |-> Pick("itiSec"), trialsPerSet |-> Pick("trialsPerSet"),
        numberRange |-> Pick("numberRange"), answerMode |-> Pick("answerMode"),
        feedback |-> Pick("feedback"), feedbackSec |-> Pick("feedbackSec"),
        recording |-> Pick("recording")]

\* the settings after the settings half of the load effect: no update when the entry
\* is absent or JSON.parse throws (the catch only logs)
LoadSettings(stored, current) ==
    IF stored.kind \in {"absent", "unparseable"} THEN current ELSE MergeWithDefaults(stored)

\* What getItem("fnt_history") and JSON.parse make of the stored history entry: kind
\* "absent", "unparseable", "null", "object" (a JSON object) or "array" with its items
StoredHistories ==
    { [kind |-> k, items |-> <<>>] : k \in {"absent", "unparseable", "null", "object", "array"} }
    \cup { [kind |-> "array", items |-> <<LoadedRecord>>] }

\* the load effect of FlashNumberTrainer, run once after the first render
LoadEffect ==
    /\ lastEvent = "mount"
    /\ lastEvent' = "load"
    /\ \E stored \in StoredSettings : settings' = LoadSettings(stored, settings)
    /\ \E stored \in StoredHistories :
         IF stored.kind \in {"absent", "unparseable"}
         THEN UNCHANGED <<currentHistory, historyIsArray>>
         ELSE /\ currentHistory' = stored.items
              /\ historyIsArray' = (stored.kind = "array")
    /\ UNCHANGED <<view, sessionResults, runVars, timerVars, finishCalls, lastExit>>

\* no RunSession is mounted: its variables hold the useState initial values
SetRunInit ==
    /\ phase = InitialRun.phase
    /\ trialIndex = InitialRun.trialIndex
    /\ currentStimulus = InitialRun.currentStimulus
    /\ userInput = InitialRun.userInput
    /\ results = InitialRun.results
    /\ isPaused = InitialRun.isPaused
    /\ feedbackState = InitialRun.feedbackState

\* The page after its first render and the load effect: the HOME view, the history
\* found in localStorage, no RunSession; the settings are any valid settings within
\* the bounds.
Init ==
    /\ view = "HOME"
    /\ settings \in [digits : 1..MaxDigits, trialsPerSet : 1..MaxTrials,
                     numberRange : NumberRanges, answerMode : AnswerModes,
                     feedback : BOOLEAN, recording : BOOLEAN]
    /\ sessionResults = <<>>
    /\ currentHistory \in LoadedHistories
    /\ historyIsArray = TRUE
    /\ phase = InitialRun.phase
    /\ trialIndex = InitialRun.trialIndex
    /\ currentStimulus = InitialRun.currentStimulus
    /\ userInput = InitialRun.userInput
    /\ results = InitialRun.results
    /\ isPaused = InitialRun.isPaused
    /\ feedbackState = InitialRun.feedbackState
    /\ timerRef = NullTimer
    /\ timers = {}
    /\ hasCleanup = FALSE
    /\ finishCalls = 0
    /\ lastExit = NoExit
    /\ lastEvent = "load"

Next ==
    \/ HandleStartRequest
    \/ HandleStartTraining
    \/ ResultNextSet
    \/ ResultHome
    \/ OnAbort
    \/ SettingsBack
    \/ OpenHistory
    \/ HistoryBack
    \/ HandleHistoryClear
    \/ PrepTimerFires
    \/ ShowTimerFires
    \/ HideTimerFires
    \/ FeedbackTimerFires
    \/ KeypadPress
    \/ SubmitKeypad
    \/ SubmitVerbal
    \/ TogglePause
    \/ Resume

Spec == Init /\ [][Next]_vars

\* a timer callback runs in the step
TimerFires == PrepTimerFires \/ ShowTimerFires \/ HideTimerFires \/ FeedbackTimerFires

\* The scheduling the page runs under: a pending timeout that is not cancelled fires
\* (at most one is pending at a time); the user submits while the run waits in
\* ANSWER, and resumes or aborts while the run is paused.
Fairness ==
    /\ WF_vars(TimerFires)
    /\ WF_vars(phase = "ANSWER" /\ (SubmitKeypad \/ SubmitVerbal))
    /\ WF_vars(isPaused /\ (Resume \/ TogglePause \/ OnAbort))

\* the initial states from which termination is explored: no recording, no loaded
\* history, settings within the smaller bounds
InitLive ==
    /\ Init
    /\ settings.digits <= LiveDigits
    /\ settings.trialsPerSet <= LiveTrials
    /\ ~settings.recording
    /\ currentHistory = <<>>

SpecLive == InitLive /\ [][Next]_vars /\ Fairness

\* the page when two key presses can reach the handlers of one render
NextBurst ==
    \/ Next
    \/ KeypadBurst

SpecBurst == Init /\ [][NextBurst]_vars

\* The page after its first render, before the load effect: the useState initial values
InitLoad ==
    /\ view = "HOME"
    /\ settings = DEFAULT_SETTINGS
    /\ sessionResults = <<>>
    /\ currentHistory = <<>>
    /\ historyIsArray = TRUE
    /\ SetRunInit
    /\ timerRef = NullTimer
    /\ timers = {}
    /\ hasCleanup = FALSE
    /\ finishCalls = 0
    /\ lastExit = NoExit
    /\ lastEvent = "mount"

\* the load effect, then the way to a run and to the history screen; the run itself
\* is left to Spec
NextLoad ==
    \/ LoadEffect
    \/ lastEvent # "mount" /\ HandleStartRequest
    \/ lastEvent # "mount" /\ SettingsBack
    \/ lastEvent # "mount" /\ HandleStartTraining
    \/ lastEvent # "mount" /\ OnAbort
    \/ lastEvent # "mount" /\ OpenHistory
    \/ lastEvent # "mount" /\ HistoryBack

SpecLoad == InitLoad /\ [][NextLoad]_vars

\* outcomes of Math.random() for which generateStimulus is evaluated on its own, in
\* tenths: 0.0, 0.5 and 0.9 (the smallest, a middle and the largest digit)
StimulusDraws == {0, 5, 9}

\* the settings screen with every digits and numberRange the controls can set
InitStimulus ==
    /\ view = "SETTINGS"
    /\ settings \in [digits : MIN_DIGITS..MAX_DIGITS, trialsPerSet : {1},
                     numberRange : NumberRanges, answerMode : {"keypad"},
                     feedback : {TRUE}, recording : {FALSE}]
    /\ sessionResults = <<>>
    /\ currentHistory = <<>>
    /\ historyIsArray = TRUE
    /\ SetRunInit
    /\ timerRef = NullTimer
    /\ timers = {}
    /\ hasCleanup = FALSE
    /\ finishCalls = 0
    /\ lastExit = NoExit
    /\ lastEvent = "load"

\* one evaluation of generateStimulus(settings.digits, settings.numberRange), as the
\* data setup effect makes it; the result is kept in currentStimulus
GenerateStimulus ==
    /\ lastEvent = "load"
    /\ lastEvent' = "generateStimulus"
    /\ \E rnd \in [1..settings.digits -> StimulusDraws] :
         currentStimulus' = generateStimulus(settings.digits, settings.numberRange, rnd)
    /\ UNCHANGED <<parentVars, phase, trialIndex, userInput, results, isPaused, feedbackState,
                   timerVars, finishCalls, lastExit>>

NextStimulus == GenerateStimulus

SpecStimulus == InitStimulus /\ [][NextStimulus]_vars

\* the largest trialsPerSet the settings control allows (max={20})
MaxTrialsPerSet == 20

\* the results of a keypad set of total trials (one digit each) of which the first
\* correct ones were answered correctly
ResultsOf(correct, total) ==
    [k \in 1..total |-> TrialRecord(k, "1", IF k <= correct THEN "1" ELSE "", k <= correct, FALSE)]

\* The result screen after a recorded keypad set with feedback, for every number of
\* trials the control allows and every number of correct answers
InitScore ==
    /\ view = "RESULT"
    /\ \E total \in 1..MaxTrialsPerSet : \E correct \in 0..total :
         /\ settings = [digits |-> 1, trialsPerSet |-> total, numberRange |-> "1-9",
                        answerMode |-> "keypad", feedback |-> TRUE, recording |-> TRUE]
         /\ sessionResults = ResultsOf(correct, total)
         /\ currentHistory = <<NewRecord(sessionResults)>>
         /\ lastExit = [kind |-> "finish", phase |-> "FEEDBACK", trialIndex |-> total - 1,
                        isPaused |-> FALSE, recorded |-> total]
    /\ historyIsArray = TRUE
    /\ SetRunInit
    /\ timerRef = NullTimer
    /\ timers = {}
    /\ hasCleanup = FALSE
    /\ finishCalls = 1
    /\ lastEvent = "feedbackTimer"

\* the screens that show or export the score, and the way between them
NextScore ==
    \/ ResultHome
    \/ ResultNextSet
    \/ SettingsBack
    \/ HandleStartRequest
    \/ OpenHistory
    \/ HistoryBack
    \/ HandleHistoryClear

SpecScore == InitScore /\ [][NextScore]_vars

\* ------------------------------------------------------------- the settings controls
\* the rounding error of a floating-point sum or difference, in thousandths
FloatErrors == {-1, 0, 1}

\* Number(x.toFixed(2)): x in thousandths, the result in hundredths
ToFixed2(x) == (x + 5) \div 10

\* Math.round(h) for h in hundredths: the nearest whole number, a half goes up
MathRound(h) == ((h + 50) \div 100) * 100

\* Math.max and Math.min
MathMax(a, b) == IF a >= b THEN a ELSE b
MathMin(a, b) == IF a <= b THEN a ELSE b

\* normalizeDisplaySec(nextValue), in hundredths
normalizeDisplaySec(nextValue) ==
    IF nextValue <= 200 THEN ToFixed2(nextValue * 10) ELSE MathMax(300, MathRound(nextValue))

\* a resolveDisplayStep that always steps by 0.05
resolveDisplayStepFine(currentValue, direction) == 5

\* resolveDisplayStep(currentValue, direction), in hundredths
resolveDisplayStep(currentValue, direction) ==
    IF currentValue > 200 THEN 100
    ELSE IF currentValue = 200 /\ direction = "up" THEN 100
         ELSE 5

\* the NumberControl instances of renderSettings, by the settings field they change:
\* min, max and step in hundredths; unit is what 1 of the field is in hundredths
NumberControls ==
    [digits       |-> [min |-> MIN_DIGITS * 100, max |-> MAX_DIGITS * 100, step |-> 100,
                       normalizeValue |-> FALSE, stepStrategy |-> FALSE, unit |-> 100],
     displaySec   |-> [min |-> 5, max |-> 1000, step |-> 5,
                       normalizeValue |-> TRUE, stepStrategy |-> TRUE, unit |-> 1],
     itiSec       |-> [min |-> 0, max |-> 300, step |-> 50,
                       normalizeValue |-> FALSE, stepStrategy |-> FALSE, unit |-> 1],
     trialsPerSet |-> [min |-> 100, max |-> 2000, step |-> 100,
                       normalizeValue |-> FALSE, stepStrategy |-> FALSE, unit |-> 100]]

\* resolveStep of NumberControl c
resolveStep(c, currentValue, direction) ==
    IF c.stepStrategy THEN resolveDisplayStep(currentValue, direction) ELSE c.step

\* the value handleMinus passes to onChange; e is the error of value - currentStep
handleMinus(c, value, e) ==
    MathMax(c.min, ToFixed2((value - resolveStep(c, value, "down")) * 10 + e))

\* the value handlePlus passes to onChange; e is the error of value + currentStep
handlePlus(c, value, e) ==
    MathMin(c.max, ToFixed2((value + resolveStep(c, value, "up")) * 10 + e))

\* the values the range input of NumberControl c can take: min + k * step up to max
SliderValues(c) == { c.min + i * c.step : i \in 0..((c.max - c.min) \div c.step) }

\* the value the onChange of the range input passes to onChange
handleSlider(c, nextValue) ==
    IF c.normalizeValue THEN normalizeDisplaySec(nextValue) ELSE nextValue

\* onChange of the NumberControl of field k: setSettings({ ...settings, [k]: v })
SetField(k, v) ==
    /\ settings' = [settings EXCEPT ![k] = v \div NumberControls[k].unit]
    /\ UNCHANGED <<view, sessionResults, currentHistory, historyIsArray, runVars, timerVars,
                   finishCalls, lastExit>>

\* the minus button of a NumberControl (disabled while value <= min)
MinusClick ==
    /\ lastEvent' = "handleMinus"
    /\ view = "SETTINGS"
    /\ \E k \in DOMAIN NumberControls :
         LET c == NumberControls[k]
             value == settings[k] * c.unit
         IN /\ ~(value <= c.min)
            /\ \E v \in { handleMinus(c, value, e) : e \in FloatErrors } : SetField(k, v)

\* the plus button of a NumberControl (disabled while value >= max)
PlusClick ==
    /\ lastEvent' = "handlePlus"
    /\ view = "SETTINGS"
    /\ \E k \in DOMAIN NumberControls :
         LET c == NumberControls[k]
             value == settings[k] * c.unit
         IN /\ ~(value >= c.max)
            /\ \E v \in { handlePlus(c, value, e) : e \in FloatErrors } : SetField(k, v)

\* the range input of a NumberControl is moved to nextValue
SliderChange ==
    /\ lastEvent' = "slider"
    /\ view = "SETTINGS"
    /\ \E k \in DOMAIN NumberControls :
         LET c == NumberControls[k]
         IN \E v \in { handleSlider(c, nextValue) : nextValue \in SliderValues(c) } :
                SetField(k, v)

\* the page after the load effect found nothing stored: the default settings
InitControls ==
    /\ view = "HOME"
    /\ settings = DEFAULT_SETTINGS
    /\ sessionResults = <<>>
    /\ currentHistory = <<>>
    /\ historyIsArray = TRUE
    /\ SetRunInit
    /\ timerRef = NullTimer
    /\ timers = {}
    /\ hasCleanup = FALSE
    /\ finishCalls = 0
    /\ lastExit = NoExit
    /\ lastEvent = "load"

\* the settings screen and its NumberControls
NextControls ==
    \/ HandleStartRequest
    \/ SettingsBack
    \/ MinusClick
    \/ PlusClick
    \/ SliderChange

SpecControls == InitControls /\ [][NextControls]_vars

\* ------------------------------------------------------------- the claims
\* every list of trial results the page holds
AllResultLists ==
    {results, sessionResults} \cup { currentHistory[i].results : i \in 1..Len(currentHistory) }

\* every trial record the page holds
AllRecords == UNION { { res[i] : i \in 1..Len(res) } : res \in AllResultLists }

\* every trial record of the run on screen: its results, or those it handed over
RunRecords ==
    IF view \in {"RUN", "RESULT"}
    THEN { results[i] : i \in 1..Len(results) }
         \cup { sessionResults[i] : i \in 1..Len(sessionResults) }
    ELSE {}

\* the step ends the last trial of the set: the callback or handler that calls
\* nextTrial() runs while trialIndex + 1 = trialsPerSet
EndsLastTrial ==
    /\ view = "RUN"
    /\ trialIndex + 1 = settings.trialsPerSet
    /\ \/ FeedbackTimerFires
       \/ settings.answerMode = "none" /\ HideTimerFires
       \/ ~settings.feedback /\ phase = "ANSWER" /\ (SubmitKeypad \/ SubmitVerbal)

\* C1: whenever onFinish has been invoked at the end of a set, the results sequence
\* it received (kept in sessionResults) holds exactly trialsPerSet entries.
C1_FinishReceivesEveryTrial ==
    finishCalls > 0 => Len(sessionResults) = settings.trialsPerSet

\* C2: a run that ends its last trial invokes onFinish in that very step, onFinish is
\* invoked at most once per run and only by the step that ends the last trial, and
\* from that invocation on RunSession is gone: the view is not RUN, no timer is
\* pending, and nothing changes the phase until a new set is started.
C2_FinishExactlyOnce ==
    [][ /\ finishCalls' <= 1
        /\ EndsLastTrial => (finishCalls = 0 /\ finishCalls' = 1 /\ view' = "RESULT")
        /\ finishCalls' > finishCalls => EndsLastTrial
        /\ finishCalls' = 1 => (view' # "RUN" /\ timers' = {} /\ phase' = InitialRun.phase
                                /\ lastExit'.kind = "finish")
      ]_vars

\* C2 witness: a set of three trials has been completed and handed over.
C2_Witness ==
    /\ finishCalls = 1
    /\ view = "RESULT"
    /\ settings.trialsPerSet = 3
    /\ lastExit.kind = "finish"
    /\ lastExit.trialIndex = 2

\* C3: every record of a keypad submission (isVerbal false) has isCorrect true iff its
\* input equals its stimulus; an input shorter than the stimulus is recorded incorrect.
C3_KeypadCorrectIffEqual ==
    \A r \in AllRecords :
        ~r.isVerbal =>
            /\ r.isCorrect <=> (r.input = r.stimulus)
            /\ Len(r.input) < Len(r.stimulus) => ~r.isCorrect

\* C3 witness: a correct keypad record followed by one whose input is a proper,
\* non-empty prefix of the stimulus, recorded incorrect.
C3_Witness ==
    /\ Len(results) = 2
    /\ ~results[1].isVerbal /\ results[1].isCorrect /\ results[1].input = "11"
    /\ ~results[2].isVerbal /\ ~results[2].isCorrect
    /\ results[2].input = "1" /\ results[2].stimulus = "11"

\* C4: in answer mode none the phase is never ANSWER or FEEDBACK, every record is
\* verbal and correct, and a completed set of 3 trials hands over 3 such records.
C4_NoneModeAllVerbal ==
    settings.answerMode = "none" =>
        /\ ~(view = "RUN" /\ phase \in {"ANSWER", "FEEDBACK"})
        /\ \A r \in RunRecords : r.isVerbal /\ r.isCorrect
        /\ (finishCalls > 0 /\ settings.trialsPerSet = 3) => Len(sessionResults) = 3

\* the phase changes of one trial with feedback
FeedbackOrder ==
    {<<"PREP", "SHOW">>, <<"SHOW", "HIDE">>, <<"HIDE", "ANSWER">>, <<"ANSWER", "FEEDBACK">>,
     <<"FEEDBACK", "PREP">>}

\* C5: with feedback and the keypad, while the run is mounted the phase changes only
\* along PREP, SHOW, HIDE, ANSWER, FEEDBACK and back to PREP; the trial index changes
\* only with FEEDBACK -> PREP, by one, and the set completes only from FEEDBACK.
C5_PhaseOrderWithFeedback ==
    [][ (settings.feedback /\ settings.answerMode = "keypad" /\ view = "RUN") =>
          /\ (view' = "RUN" /\ phase' # phase) => <<phase, phase'>> \in FeedbackOrder
          /\ (view' = "RUN" /\ phase = "FEEDBACK" /\ phase' = "PREP")
                => trialIndex' = trialIndex + 1
          /\ (view' = "RUN" /\ trialIndex' # trialIndex)
                => (phase = "FEEDBACK" /\ phase' = "PREP" /\ trialIndex' = trialIndex + 1)
          /\ view' = "RESULT" => phase = "FEEDBACK"
      ]_vars

\* C5 witness: the third trial of a keypad run with feedback is in its FEEDBACK phase.
C5_Witness ==
    /\ view = "RUN"
    /\ settings.feedback /\ settings.answerMode = "keypad"
    /\ trialIndex = 2
    /\ phase = "FEEDBACK"

\* C6: without feedback the phase never becomes FEEDBACK, a submit in ANSWER starts
\* the next trial or completes the set, and the record of the submitted trial is the
\* last of the results (of the results handed over when the set completes).
C6_NoFeedbackSkipsPhase ==
    [][ (~settings.feedback /\ view = "RUN") =>
          /\ ~(view' = "RUN" /\ phase' = "FEEDBACK")
          /\ (phase = "ANSWER" /\ view' = "RUN" /\ phase' # "ANSWER")
                => /\ phase' = "PREP"
                   /\ trialIndex' = trialIndex + 1
                   /\ Len(results') = Len(results) + 1
                   /\ results'[Len(results')].trial = trialIndex + 1
          /\ (phase = "ANSWER" /\ view' = "RESULT")
                => /\ Len(sessionResults') = Len(results) + 1
                   /\ sessionResults'[Len(sessionResults')].trial = trialIndex + 1
      ]_vars

\* C7: while the run is paused no timer is pending, and no step changes the phase,
\* the trial index or the results.
C7_PausedNothingFires ==
    [][ (view = "RUN" /\ isPaused) =>
          /\ timers = {}
          /\ view' = "RUN" => (phase' = phase /\ trialIndex' = trialIndex /\ results' = results)
      ]_vars
\* C7 witness: the second trial is paused while its stimulus is shown.
C7_Witness ==
    /\ view = "RUN"
    /\ isPaused
    /\ phase = "SHOW"
    /\ trialIndex = 1

\* C8: a paused run is in SHOW or HIDE, and the step that resumes it leaves exactly
\* one pending timer, newly scheduled, for the phase the run is in.
C8_PausedOnlyInShowOrHide ==
    [][ /\ (view = "RUN" /\ isPaused) => phase \in {"SHOW", "HIDE"}
        /\ (view' = "RUN" /\ isPaused') => phase' \in {"SHOW", "HIDE"}
        /\ (view = "RUN" /\ isPaused /\ view' = "RUN" /\ ~isPaused')
              => /\ phase' = phase
                 /\ timers = {}
                 /\ Cardinality(timers') = 1
                 /\ \A t \in timers' :
                       /\ t.id = timerRef'
                       /\ t.id # timerRef
                       /\ t.phase = phase'
                       /\ t.trialIndex = trialIndex'
      ]_vars

\* C8 witness: a run paused in HIDE has been resumed and its HIDE timer is pending.
C8_Witness ==
    /\ view = "RUN"
    /\ lastEvent = "resume"
    /\ ~isPaused
    /\ phase = "HIDE"
    /\ \E t \in timers : t.phase = "HIDE" /\ t.id = timerRef

\* C9: the step that aborts a run (from any phase, paused or not) invokes no onFinish,
\* leaves the history and the session results as they are and leaves no timer
\* pending; until a new set is started no onFinish is invoked, the history gains no
\* record and no timer is pending.
C9_AbortEmitsNothing ==
    [][ /\ (view = "RUN" /\ view' = "HOME")
              => /\ lastExit'.kind = "abort"
                 /\ finishCalls' = 0
                 /\ currentHistory' = currentHistory
                 /\ sessionResults' = sessionResults
                 /\ timers' = {}
        /\ (lastExit.kind = "abort" /\ lastExit'.kind = "abort")
              => /\ finishCalls' = 0
                 /\ Len(currentHistory') <= Len(currentHistory)
                 /\ sessionResults' = sessionResults
                 /\ timers' = {}
                 /\ view' \notin {"RUN", "RESULT"}
      ]_vars

\* C9 witness: a recorded run was aborted from the pause modal with two trials done.
C9_Witness ==
    /\ view = "HOME"
    /\ settings.recording
    /\ lastExit.kind = "abort"
    /\ lastExit.isPaused
    /\ lastExit.recorded = 2

\* C10: at most one timer is pending, and it is the one timerRef holds.
C10_OnePendingTimer ==
    /\ Cardinality(timers) <= 1
    /\ \A t \in timers : t.id = timerRef

\* C10 witness: the PREP timer of the first render was cancelled and the one of the
\* render with the stimulus scheduled in its place.
C10_Witness ==
    /\ view = "RUN"
    /\ phase = "PREP"
    /\ trialIndex = 0
    /\ timerRef = 2
    /\ \E t \in timers : t.id = 2 /\ t.phase = "PREP" /\ t.currentStimulus = currentStimulus

\* C11: whenever a timer callback runs, the run is mounted and not paused and every
\* pending timer (the one that fires) was scheduled for the current phase, trial
\* index, stimulus and results; a step that changes the trial index, pauses the run
\* or unmounts it leaves none of the timers that were pending.
C11_NoStaleTimerFires ==
    [][ /\ TimerFires =>
              /\ view = "RUN" /\ ~isPaused
              /\ \A t \in timers :
                    /\ t.phase = phase /\ t.trialIndex = trialIndex
                    /\ t.currentStimulus = currentStimulus /\ t.results = results
        /\ (trialIndex' # trialIndex \/ (~isPaused /\ isPaused') \/ (view = "RUN" /\ view' # "RUN"))
              => timers \cap timers' = {}
        /\ ((view = "RUN" /\ view' # "RUN") \/ isPaused') => timers' = {}
      ]_vars

\* C11 witness: the HIDE timer of the second trial has fired and started the third
\* trial, whose PREP timer is pending.
C11_Witness ==
    /\ view = "RUN"
    /\ lastEvent = "hideTimer"
    /\ settings.answerMode = "none"
    /\ trialIndex = 2
    /\ phase = "PREP"
    /\ \E t \in timers : t.phase = "PREP" /\ t.trialIndex = 2

\* in an unpaused run a timer is pending iff the phase is not ANSWER
TimerIffTimedPhase ==
    (view = "RUN" /\ ~isPaused) =>
        (timers # {} <=> phase \in {"PREP", "SHOW", "HIDE", "FEEDBACK"})

\* C12: in every unpaused state of a run a phase timer is pending iff the phase is
\* PREP, SHOW, HIDE or FEEDBACK (none in ANSWER), and the step that takes the run out
\* of ANSWER, to another phase or to the result screen, is a submit and no timer
\* callback.
C12_AnswerOnlyTimerlessPhase ==
    [][ /\ TimerIffTimedPhase
        /\ TimerIffTimedPhase'
        /\ (view = "RUN" /\ phase = "ANSWER"
              /\ (view' = "RESULT" \/ (view' = "RUN" /\ phase' # "ANSWER")))
              => (lastEvent' = "submitAnswer" /\ ~TimerFires)
      ]_vars

\* C12 witness: the second trial waits in ANSWER, entered by the HIDE timer, with no
\* timer pending.
C12_Witness ==
    /\ view = "RUN"
    /\ ~isPaused
    /\ phase = "ANSWER"
    /\ trialIndex = 1
    /\ lastEvent = "hideTimer"
    /\ timers = {}

C14_OutsideAnswerNothingChanges ==
    [][ (view = "RUN" /\ phase # "ANSWER" /\ lastEvent' \in {"handleKeypad", "submitAnswer"})
          => /\ UNCHANGED <<userInput, results, phase, trialIndex, feedbackState>>
             /\ UNCHANGED <<currentStimulus, isPaused, timerVars, parentVars>>
             /\ finishCalls' = finishCalls
      ]_vars

\* C14 witness: a key was pressed while the second trial was in HIDE, with an input
\* recorded for the first trial.
C14_Witness ==
    /\ view = "RUN"
    /\ lastEvent = "handleKeypad"
    /\ phase = "HIDE"
    /\ trialIndex = 1
    /\ Len(results) = 1
    /\ userInput = ""

\* C15: in a run 0 <= trialIndex < trialsPerSet; a run starts with trialIndex 0, and
\* a step of the run leaves trialIndex as it is or adds one to it; it adds one only
\* when nextTrial() is called (HIDE timer, FEEDBACK timer or a submit) for a trial
\* that is not the last, and the next trial starts in PREP.
C15_TrialIndexInRange ==
    [][ /\ view' = "RUN" => (0 <= trialIndex' /\ trialIndex' < settings.trialsPerSet)
        /\ (view # "RUN" /\ view' = "RUN") => trialIndex' = 0
        /\ (view = "RUN" /\ view' = "RUN" /\ trialIndex' # trialIndex)
              => /\ trialIndex' = trialIndex + 1
                 /\ trialIndex + 1 < settings.trialsPerSet
                 /\ phase' = "PREP"
                 /\ lastEvent' \in {"hideTimer", "feedbackTimer", "submitAnswer"}
      ]_vars

\* C15 witness: the FEEDBACK timer of the second trial started the third, the last
\* trial of the set.
C15_Witness ==
    /\ view = "RUN"
    /\ lastEvent = "feedbackTimer"
    /\ settings.trialsPerSet = 3
    /\ trialIndex = 2
    /\ phase = "PREP"

\* one record per trial, in trial order, as many as the trials done
OneRecordPerTrial ==
    view = "RUN" =>
        /\ \A k \in 1..Len(results) : results[k].trial = k
        /\ Len(results) = (IF phase = "FEEDBACK" THEN trialIndex + 1 ELSE trialIndex)

\* C16: during a run a step leaves results as it is or appends one record (records
\* are never changed or removed); the k-th record has trial = k; results holds
\* trialIndex records in PREP, SHOW, HIDE and ANSWER and trialIndex + 1 in FEEDBACK.
C16_ResultsAppendOnly ==
    [][ /\ OneRecordPerTrial
        /\ OneRecordPerTrial'
        /\ (view = "RUN" /\ view' = "RUN")
              => \/ results' = results
                 \/ /\ Len(results') = Len(results) + 1
                    /\ SubSeq(results', 1, Len(results)) = results
      ]_vars

\* C16 witness: the second trial was submitted and the run is in FEEDBACK with two
\* records.
C16_Witness ==
    /\ view = "RUN"
    /\ lastEvent = "submitAnswer"
    /\ phase = "FEEDBACK"
    /\ trialIndex = 1
    /\ Len(results) = 2
    /\ results[2].trial = 2

\* C17: while a trial is in PREP (with its stimulus), SHOW or HIDE, and in the state
\* in which it enters ANSWER, userInput is empty and feedbackState is null; the step
\* that changes the trial index leaves both reset.
C17_TrialStateReset ==
    [][ /\ (view' = "RUN" /\ phase' \in {"PREP", "SHOW", "HIDE"})
              => (userInput' = "" /\ feedbackState' = "null")
        /\ (view' = "RUN" /\ phase' = "ANSWER" /\ ~(view = "RUN" /\ phase = "ANSWER"))
              => (userInput' = "" /\ feedbackState' = "null")
        /\ (view' = "RUN" /\ (view # "RUN" \/ trialIndex' # trialIndex))
              => (userInput' = "" /\ feedbackState' = "null" /\ phase' = "PREP")
      ]_vars

\* C17 witness: the second trial shows its stimulus after a first trial that was
\* answered on the keypad and got feedback.
C17_Witness ==
    /\ view = "RUN"
    /\ settings.feedback
    /\ phase = "SHOW"
    /\ trialIndex = 1
    /\ Len(results) = 1
    /\ results[1].input = "1" /\ results[1].stimulus = "11"
    /\ userInput = "" /\ feedbackState = "null"

\* C18: the step that completes a set appends exactly one record to the history
\* when settings.recording is true and leaves the history as it is when it is false;
\* an abort leaves the history as it is; the history changes in no other step but a
\* confirmed handleHistoryClear, which empties it.
C18_HistoryOneRecordPerSet ==
    [][ /\ (view = "RUN" /\ view' = "RESULT")
              => IF settings.recording
                 THEN /\ Len(currentHistory') = Len(currentHistory) + 1
                      /\ SubSeq(currentHistory', 1, Len(currentHistory)) = currentHistory
                      /\ currentHistory'[Len(currentHistory')].timestamp = Now
                 ELSE currentHistory' = currentHistory
        /\ (view = "RUN" /\ view' = "HOME") => currentHistory' = currentHistory
        /\ (currentHistory' # currentHistory /\ ~(view = "RUN" /\ view' = "RESULT"))
              => /\ lastEvent' = "historyClear"
                 /\ view = "HISTORY"
                 /\ currentHistory' = <<>>
        /\ lastEvent' = "historyClearCancelled" => currentHistory' = currentHistory
      ]_vars

\* C18 witness: a recorded set of two trials was completed and its record follows
\* the loaded one in the history.
C18_Witness ==
    /\ view = "RESULT"
    /\ settings.recording
    /\ settings.trialsPerSet = 2
    /\ lastExit.kind = "finish"
    /\ Len(currentHistory) = 2
    /\ currentHistory[1] = LoadedRecord
    /\ currentHistory[2].settings = settings

\* C19: every history record has total equal to the trialsPerSet of its settings
\* snapshot and to the number of results it stores, and correct equal to the number
\* of those results with isCorrect true; so 0 <= correct <= total and total >= 1.
C19_RecordTotals ==
    \A i \in 1..Len(currentHistory) :
        LET r == currentHistory[i]
        IN /\ r.total = r.settings.trialsPerSet
           /\ r.total = Len(r.results)
           /\ r.correct = Cardinality({ k \in 1..Len(r.results) : r.results[k].isCorrect })
           /\ 0 <= r.correct /\ r.correct <= r.total
           /\ r.total >= 1

\* C20: the score on the result screen, and the score exportCSV writes for every
\* history record, is a defined integer in 0..100 (never NaN), whatever results the
\* run handed over, an empty list included.
C20_ScoreDefined ==
    /\ view = "RESULT"
          => /\ ~ResultScreenScore(sessionResults).isNaN
             /\ ResultScreenScore(sessionResults).value \in 0..100
    /\ \A i \in 1..Len(currentHistory) :
          /\ ~CsvScore(currentHistory[i]).isNaN
          /\ CsvScore(currentHistory[i]).value \in 0..100

\* C21: whenever a run is mounted its settings are within their ranges: digits in
\* 1..8, trialsPerSet in 1..20, numberRange "0-9" or "1-9", answerMode "keypad" or
\* "none" (settings read from localStorage included).
C21_RunSettingsInRange ==
    view = "RUN" =>
        /\ settings.digits \in MIN_DIGITS..MAX_DIGITS
        /\ settings.trialsPerSet \in 1..20
        /\ settings.numberRange \in NumberRanges
        /\ settings.answerMode \in AnswerModes

\* C22: after the load effect, whatever the stored settings and history entries are,
\* the settings are a complete settings object, the history state holds an array,
\* and the page never crashes.
C22_LoadRecovers ==
    lastEvent # "mount" =>
        /\ DOMAIN settings = DOMAIN DEFAULT_SETTINGS
        /\ historyIsArray
        /\ view # "CRASHED"

\* the one-character strings generateStimulus may use for the range
AllowedDigits(range) ==
    IF range = "1-9"
    THEN {"1", "2", "3", "4", "5", "6", "7", "8", "9"}
    ELSE {"0", "1", "2", "3", "4", "5", "6", "7", "8", "9"}

\* C23: for digits in 1..8, both ranges and every outcome of the random draws,
\* generateStimulus returns a string of exactly digits characters, each a digit of
\* 0..9 for the range 0-9 and of 1..9 for the range 1-9.
C23_StimulusShape ==
    lastEvent = "generateStimulus" =>
        /\ Len(currentStimulus) = settings.digits
        /\ \A i \in 1..Len(currentStimulus) :
              SubSeq(currentStimulus, i, i) \in AllowedDigits(settings.numberRange)

\* C23 witness: eight digits of the range 1-9 drawn from the smallest and the
\* largest outcome.
C23_Witness ==
    /\ lastEvent = "generateStimulus"
    /\ settings.digits = 8
    /\ settings.numberRange = "1-9"
    /\ currentStimulus = "11111119"

\* s is correct / total * 100 rounded to the nearest integer, a half rounded up
RoundsHalfUp(s, correct, total) ==
    /\ 200 * correct - total < 2 * s * total
    /\ 2 * s * total <= 200 * correct + total

\* C24: for a non-empty result set the score on the result screen, and the score
\* exportCSV writes for a history record, is correct / total * 100 rounded to the
\* nearest integer with halves rounded up; 3 correct of 4 gives 75.
C24_ScoreRounded ==
    /\ (view = "RESULT" /\ sessionResults # <<>>)
          => /\ ~ResultScreenScore(sessionResults).isNaN
             /\ RoundsHalfUp(ResultScreenScore(sessionResults).value,
                             CorrectCount(sessionResults), Len(sessionResults))
             /\ (CorrectCount(sessionResults) = 3 /\ Len(sessionResults) = 4)
                   => ResultScreenScore(sessionResults).value = 75
    /\ \A i \in 1..Len(currentHistory) :
          currentHistory[i].total >= 1
              => /\ ~CsvScore(currentHistory[i]).isNaN
                 /\ RoundsHalfUp(CsvScore(currentHistory[i]).value,
                                 currentHistory[i].correct, currentHistory[i].total)

\* C24 witness: 1 correct of 8 was shown as 13 (12.5 rounded up) and the history
\* screen exports the same score.
C24_Witness ==
    /\ view = "HISTORY"
    /\ lastEvent = "openHistory"
    /\ Len(sessionResults) = 8
    /\ CorrectCount(sessionResults) = 1
    /\ ResultScreenScore(sessionResults).value = 13
    /\ Len(currentHistory) = 1
    /\ CsvScore(currentHistory[1]).value = 13

\* a run is mounted
Running == view = "RUN"

\* the run was left by onFinish or by an abort, in a trial below trialsPerSet (the
\* trial index only grows during a run, so every trial of the run was below it)
Terminated ==
    /\ view # "RUN"
    /\ lastExit.kind \in {"finish", "abort"}
    /\ lastExit.trialIndex < settings.trialsPerSet

\* C25: under the fairness of the timers, of the submit in ANSWER and of the resume
\* after a pause, every started run terminates (onFinish or abort) after at most
\* trialsPerSet trials.
C25_RunTerminates == Running ~> Terminated

\* C25 amended: the same, for the behaviours in which the run is paused only finitely
\* often.
C25_RunTerminatesUnlessPausedForever == (<>[](~isPaused)) => (Running ~> Terminated)

\* C25 witness: a run of two trials has been ended by onFinish in its second trial.
C25_Witness ==
    /\ Terminated
    /\ lastExit.kind = "finish"
    /\ lastExit.trialIndex = 1
    /\ settings.trialsPerSet = 2

\* C26: whenever the run is in FEEDBACK, feedbackState is not null and agrees with the
\* record just appended for the current trial: "verbal" exactly when that record is
\* verbal, otherwise "correct" exactly when it has isCorrect and "incorrect" exactly
\* when it has not.
C26_FeedbackMatchesRecord ==
    (view = "RUN" /\ phase = "FEEDBACK")
        => /\ feedbackState # "null"
           /\ Len(results) >= 1
           /\ LET r == results[Len(results)]
              IN /\ r.trial = trialIndex + 1
                 /\ (feedbackState = "verbal") <=> r.isVerbal
                 /\ ~r.isVerbal
                      => /\ (feedbackState = "correct") <=> r.isCorrect
                         /\ (feedbackState = "incorrect") <=> ~r.isCorrect

\* C26 witness: submitAnswer has just recorded a wrong keypad answer and the run shows
\* the incorrect mark in FEEDBACK.
C26_Witness ==
    /\ view = "RUN"
    /\ phase = "FEEDBACK"
    /\ lastEvent = "submitAnswer"
    /\ feedbackState = "incorrect"
    /\ Len(results) >= 1
    /\ ~results[Len(results)].isCorrect
    /\ results[Len(results)].input # results[Len(results)].stimulus

\* C27: the stimulus is stable within a trial. During a run currentStimulus changes
\* only in a step that changes trialIndex and ends in PREP (the mount ends in PREP,
\* too); the record a step appends stores the stimulus of the trial, and a keypad
\* record is correct exactly when its input equals that stimulus; the stimulus of a
\* mounted run, and of every record, is non-empty and settings.digits long.
C27_StimulusStable ==
    [][ /\ (view = "RUN" /\ view' = "RUN" /\ currentStimulus' # currentStimulus)
            => (trialIndex' # trialIndex /\ phase' = "PREP")
        /\ (view # "RUN" /\ view' = "RUN") => (phase' = "PREP" /\ trialIndex' = 0)
        /\ (view = "RUN" /\ view' = "RUN" /\ Len(results') = Len(results) + 1)
            => LET r == results'[Len(results')]
               IN /\ r.stimulus = currentStimulus
                  /\ r.trial = trialIndex + 1
                  /\ ~r.isVerbal => (r.isCorrect <=> (r.input = currentStimulus))
        /\ view' = "RUN"
            => /\ currentStimulus' # ""
               /\ Len(currentStimulus') = settings'.digits
               /\ \A i \in 1..Len(results') :
                    /\ results'[i].stimulus # ""
                    /\ Len(results'[i].stimulus) = settings'.digits
      ]_vars

\* C28: from the default settings, whatever minus, plus and slider operations are
\* made, digits stays in 1..8, trialsPerSet in 1..20, itiSec in 0.0..3.0 and displaySec
\* in 0.05..10.0, and displaySec is a multiple of 0.05 that is at most 2 or a whole
\* number of seconds from 3 to 10 (seconds in hundredths).
C28_ControlsInRange ==
    /\ settings.digits \in 1..8
    /\ settings.trialsPerSet \in 1..20
    /\ settings.itiSec \in 0..300
    /\ settings.displaySec \in 5..1000
    /\ \/ settings.displaySec <= 200 /\ settings.displaySec % 5 = 0
       \/ settings.displaySec \in 300..1000 /\ settings.displaySec % 100 = 0

\* C28 witness: the plus button has taken displaySec from 2 to 3 seconds, with the
\* other controls at their ends.
C28_Witness ==
    /\ view = "SETTINGS"
    /\ lastEvent = "handlePlus"
    /\ settings.displaySec = 300
    /\ settings.digits = 8
    /\ settings.trialsPerSet = 1
    /\ settings.itiSec = 0
====
